---- MODULE Spec2Model ----
(***************************************************************************)
(* tools-for-agents: the tool contract (BaseTool.validate_and_execute and  *)
(* the two built-in tools) and the tool-calling loop of the company        *)
(* research agent (CompanyResearchAgent.research_company).                 *)
(*                                                                         *)
(* Two specifications:                                                     *)
(*   Spec          one invocation of research_company against a            *)
(*                 nondeterministic model endpoint and upstream services   *)
(*   SpecContract  one invocation of validate_and_execute on a tool with   *)
(*                 raw keyword arguments drawn from a bounded set          *)
(***************************************************************************)
EXTENDS Integers, Sequences, FiniteSets, TLC

VARIABLES
    messages,      \* research_company: the conversation list
    turn_count,    \* research_company: local turn_count
    pc,            \* research_company: position ("loop","for","executing","done","raised")
    tool_calls,    \* message.tool_calls of the response being processed
    idx,           \* position of the for loop over message.tool_calls (1-based)
    ret,           \* how research_company ended: returned value or raised exception
    model_calls,   \* number of chat.completions.create round-trips made
    vae_log,       \* one record per finished validate_and_execute call of the loop
    varied,        \* how many departures from the plain exchange the environment has made
    c_pc,          \* contract run: position ("start","executing","returned","raised")
    c_tool,        \* contract run: the tool validate_and_execute is called on
    c_kwargs,      \* contract run: the raw keyword arguments
    c_result,      \* contract run: what validate_and_execute produced
    c_execute_calls, \* contract run: how often the execute extension point ran
    c_execute_outcome, \* contract run: what the execute extension point returned or raised
    c_up,          \* contract run: what the upstream service answered to execute
    c_schemas      \* contract run: the schemas exported from the tool so far

vars == <<messages, turn_count, pc, tool_calls, idx, ret, model_calls, vae_log, varied,
          c_pc, c_tool, c_kwargs, c_result, c_execute_calls, c_execute_outcome,
          c_up, c_schemas>>

agent_vars == <<messages, turn_count, pc, tool_calls, idx, ret, model_calls, vae_log, varied>>

contract_vars == <<c_pc, c_tool, c_kwargs, c_result, c_execute_calls, c_execute_outcome,
                   c_up, c_schemas>>

----------------------------------------------------------------------------
(* Bounds of the environment.                                              *)

\* The model endpoint and the upstream services together depart at most this
\* often from the plain exchange (one valid google_search request answered
\* with HTTP 200): each extra request in a response, each request of another
\* shape and each other upstream answer counts one.
MaxVaried == 2

----------------------------------------------------------------------------
(* Program constants.                                                      *)

max_turns == 10

NumResultsDefault == 5
NumResultsMin == 1
NumResultsMax == 10
TimeoutDefault == 30
TimeoutMin == 5
TimeoutMax == 120

MAX_TURNS_MESSAGE == "Research incomplete - reached maximum turns"

company_name == "VIA Science"

----------------------------------------------------------------------------
(* Values.  A JSON value is tagged with its type so that the validators    *)
(* can test it: [t |-> "str" | "int" | "list" | "obj", v |-> ...].  A JSON *)
(* object is a function from its keys to JSON values.                      *)

S(x) == [t |-> "str", v |-> x]
I(n) == [t |-> "int", v |-> n]
L(xs) == [t |-> "list", v |-> xs]
O(f) == [t |-> "obj", v |-> f]

EmptyObject == [k \in {} |-> S("")]

\* Exceptions carry their class and str(e).
Exc(kind, msg) == [kind |-> kind, msg |-> msg]
NoExc == Exc("", "")
NoValue == [cls |-> "NoneType"]

\* The outcome of a call: the returned value, or the exception it raised.
Ok(v) == [ok |-> TRUE, value |-> v, exc |-> NoExc]
Raise(kind, msg) == [ok |-> FALSE, value |-> NoValue, exc |-> Exc(kind, msg)]

\* exceptions.py: the library's error taxonomy (ToolExecutionError and its
\* three subclasses).
ToolErrorKinds ==
    {"ToolExecutionError", "AuthenticationError", "RateLimitError", "ValidationError"}

RECURSIVE Join(_, _)
Join(strs, sep) ==
    IF strs = <<>> THEN ""
    ELSE IF Len(strs) = 1 THEN strs[1]
    ELSE strs[1] \o sep \o Join(Tail(strs), sep)

\* A variant of Min that keeps its first argument: the list without the slice.
Min_First(a, b) == a

Min(a, b) == IF a < b THEN a ELSE b

----------------------------------------------------------------------------
(* json.loads and json.dumps on the strings the model deals with.          *)

ARGS_NOT_JSON == "{query: acme"
ARGS_LIST == "[1]"
ARGS_EMPTY == "{}"
ARGS_SEARCH == "{\"query\": \"acme\"}"
ARGS_SEARCH_ZERO == "{\"query\": \"acme\", \"num_results\": 0}"
ARGS_FETCH == "{\"url\": \"https://acme.test\"}"

\* json.loads(s): the parsed value, or JSONDecodeError for text that is not JSON.
json_loads(s) ==
    CASE s = ARGS_LIST -> Ok(L(<<I(1)>>))
      [] s = ARGS_EMPTY -> Ok(O(EmptyObject))
      [] s = ARGS_SEARCH -> Ok(O("query" :> S("acme")))
      [] s = ARGS_SEARCH_ZERO -> Ok(O(("query" :> S("acme")) @@ ("num_results" :> I(0))))
      [] s = ARGS_FETCH -> Ok(O("url" :> S("https://acme.test")))
      [] OTHER -> Raise("JSONDecodeError", "Expecting property name enclosed in double quotes")

Quote(s) == "\"" \o s \o "\""

\* json.dumps({"error": msg})
json_dumps_error(msg) == "{\"error\": " \o Quote(msg) \o "}"

\* json.dumps of one formatted search result (agent.py 149-154)
json_dumps_result(r) ==
    "{\"position\": " \o ToString(r.position) \o ", \"title\": " \o Quote(r.title)
    \o ", \"url\": " \o Quote(r.url) \o ", \"snippet\": " \o Quote(r.snippet) \o "}"

\* json.dumps(formatted_results) (agent.py 146-162)
json_dumps_search(result) ==
    "{\"total_results\": " \o ToString(result.total_results) \o ", \"results\": ["
    \o Join([i \in 1..Len(result.results) |-> json_dumps_result(result.results[i])], ", ")
    \o "]}"

\* json.dumps(formatted_result) (agent.py 176-186)
json_dumps_fetch(result) ==
    "{\"url\": " \o Quote(result.url) \o ", \"title\": "
    \o (IF result.title.t = "str" THEN Quote(result.title.v) ELSE "null")
    \o ", \"content\": " \o Quote(result.content) \o ", \"mode\": " \o Quote(result.mode) \o "}"

----------------------------------------------------------------------------
(* The input models (pydantic BaseModel subclasses).  Constructing one     *)
(* from keyword arguments validates them: a missing required field, a      *)
(* value of the wrong type or a value out of range raises pydantic's       *)
(* ValidationError, which lists every offending field.  Unknown keys are   *)
(* ignored.  In pydantic's default mode a string of digits is accepted for *)
(* an int field.                                                           *)

FieldErr(loc, msg) == [loc |-> loc, msg |-> msg]

\* int(s) for the digit strings of the model
IntOfString == ("3" :> 3) @@ ("0" :> 0)

\* a required str field
StrField(kw, name) ==
    IF name \notin DOMAIN kw
    THEN [errs |-> <<FieldErr(name, "Field required")>>, val |-> ""]
    ELSE IF kw[name].t # "str"
    THEN [errs |-> <<FieldErr(name, "Input should be a valid string")>>, val |-> ""]
    ELSE [errs |-> <<>>, val |-> kw[name].v]

\* an optional int field with ge / le bounds
IntField(kw, name, default, ge, le) ==
    IF name \notin DOMAIN kw THEN [errs |-> <<>>, val |-> default]
    ELSE LET raw == kw[name]
             isInt == raw.t = "int" \/ (raw.t = "str" /\ raw.v \in DOMAIN IntOfString)
             n == IF raw.t = "int" THEN raw.v ELSE IntOfString[raw.v]
         IN  IF ~isInt
             THEN [errs |-> <<FieldErr(name, "Input should be a valid integer")>>,
                   val |-> default]
             ELSE IF n < ge
             THEN [errs |-> <<FieldErr(name,
                       "Input should be greater than or equal to " \o ToString(ge))>>,
                   val |-> default]
             ELSE IF n > le
             THEN [errs |-> <<FieldErr(name,
                       "Input should be less than or equal to " \o ToString(le))>>,
                   val |-> default]
             ELSE [errs |-> <<>>, val |-> n]

\* an optional Literal["text", "html"] field
ModeField(kw, name) ==
    IF name \notin DOMAIN kw THEN [errs |-> <<>>, val |-> "text"]
    ELSE IF kw[name].t = "str" /\ kw[name].v \in {"text", "html"}
    THEN [errs |-> <<>>, val |-> kw[name].v]
    ELSE [errs |-> <<FieldErr(name, "Input should be 'text' or 'html'")>>, val |-> "text"]

\* str(e) of pydantic's ValidationError, on one line
ValidationText(model, errs) ==
    ToString(Len(errs)) \o " validation error for " \o model \o ": "
    \o Join([i \in 1..Len(errs) |-> errs[i].loc \o ": " \o errs[i].msg], "; ")

\* GoogleSearchInput(**kwargs)
GoogleSearchInput(kw) ==
    LET q == StrField(kw, "query")
        n == IntField(kw, "num_results", NumResultsDefault, NumResultsMin, NumResultsMax)
        errs == q.errs \o n.errs
    IN  IF errs = <<>>
        THEN Ok([cls |-> "GoogleSearchInput", query |-> q.val, num_results |-> n.val])
        ELSE Raise("PydanticValidationError", ValidationText("GoogleSearchInput", errs))

\* WebFetchInput(**kwargs)
WebFetchInput(kw) ==
    LET u == StrField(kw, "url")
        m == ModeField(kw, "mode")
        t == IntField(kw, "timeout", TimeoutDefault, TimeoutMin, TimeoutMax)
        errs == u.errs \o m.errs \o t.errs
    IN  IF errs = <<>>
        THEN Ok([cls |-> "WebFetchInput", url |-> u.val, mode |-> m.val, timeout |-> t.val])
        ELSE Raise("PydanticValidationError", ValidationText("WebFetchInput", errs))

----------------------------------------------------------------------------
(* What the upstream services answer.  status 0 stands for a transport     *)
(* failure (requests.RequestException other than HTTPError).               *)

Item(n) == [title |-> "Acme " \o ToString(n), link |-> "https://acme.test/" \o ToString(n),
            snippet |-> "About Acme " \o ToString(n)]

SearchUp(status, error, organic, total) ==
    [status |-> status, error |-> error, organic |-> organic, total |-> total]

SEARCH_OK == SearchUp(200, "", <<Item(1)>>, I(1200))
SEARCH_OK_TWO == SearchUp(200, "", <<Item(1), Item(2)>>, S("1,200"))
SEARCH_OK_NONE == SearchUp(200, "", <<>>, I(0))
SEARCH_BAD_TOTAL == SearchUp(200, "", <<Item(1)>>, S("about 1200"))
SEARCH_429 == SearchUp(429, "", <<>>, I(0))
SEARCH_401 == SearchUp(401, "", <<>>, I(0))
SEARCH_500 == SearchUp(500, "", <<>>, I(0))
SEARCH_DOWN == SearchUp(0, "", <<>>, I(0))
SEARCH_BAD_KEY == SearchUp(200, "Invalid API key. Your API key should be here: https://serpapi.com/manage-api-key", <<>>, I(0))
SEARCH_NO_CREDIT == SearchUp(200, "Your account has run out of searches.", <<>>, I(0))
\* a body whose organic_results holds a string where a result object belongs
SEARCH_BAD_ITEM == SearchUp(200, "", <<S("sponsored")>>, I(1))

SearchUpstreams ==
    {SEARCH_OK, SEARCH_OK_TWO, SEARCH_OK_NONE, SEARCH_BAD_TOTAL, SEARCH_429, SEARCH_401,
     SEARCH_500, SEARCH_DOWN, SEARCH_BAD_KEY, SEARCH_NO_CREDIT, SEARCH_BAD_ITEM}

FetchUp(status, url, title, text, html, broken) ==
    [status |-> status, url |-> url, title |-> title, text |-> text, html |-> html,
     broken |-> broken]

NoTitle == [t |-> "none", v |-> ""]

FETCH_OK == FetchUp(200, "https://acme.test/home", S("Acme"), "Acme makes anvils",
                    "<title>Acme</title><p>Acme makes anvils</p>", FALSE)
FETCH_OK_UNTITLED == FetchUp(200, "https://acme.test", NoTitle, "anvils", "<p>anvils</p>", FALSE)
FETCH_404 == FetchUp(404, "https://acme.test", NoTitle, "", "", FALSE)
FETCH_401 == FetchUp(401, "https://acme.test", NoTitle, "", "", FALSE)
FETCH_429 == FetchUp(429, "https://acme.test", NoTitle, "", "", FALSE)
FETCH_DOWN == FetchUp(0, "https://acme.test", NoTitle, "", "", FALSE)
FETCH_BROKEN == FetchUp(200, "https://acme.test", NoTitle, "", "", TRUE)

FetchUpstreams ==
    {FETCH_OK, FETCH_OK_UNTITLED, FETCH_404, FETCH_401, FETCH_429, FETCH_DOWN, FETCH_BROKEN}

\* Is an element of organic_results a JSON object?  Only then has it a get.
IsDict(item) == DOMAIN item = DOMAIN Item(0)

\* "Invalid API key" in error_msg
ContainsInvalidApiKey(error_msg) == error_msg \in {SEARCH_BAD_KEY.error}

\* int(total.replace(",", "")) for the strings of the model; any other string
\* raises ValueError
TotalOfString == ("1,200" :> 1200)

\* What the execute of a test double returns or raises: such a tool declares
\* the search tool's models and supplies its own execute.
SearchOutput(results, total) ==
    [cls |-> "GoogleSearchOutput", results |-> results, total_results |-> total]

STUB_OUTPUT == SearchOutput(<<>>, 0)
STUB_DICT == [cls |-> "dict", results |-> <<>>]

StubUpstreams ==
    {Ok(STUB_OUTPUT), Ok(STUB_DICT), Ok(NoValue),
     Raise("AuthenticationError", "bad key"), Raise("RateLimitError", "slow down"),
     Raise("ToolExecutionError", "boom")}

----------------------------------------------------------------------------
(* The tools.                                                              *)

ToolNames == {"google_search", "web_fetch"}

\* GoogleSearchTool.execute
GoogleSearchExecute(input, up) ==
    IF up.status = 0
    THEN Raise("ToolExecutionError", "Request failed: connection refused")
    ELSE IF up.status = 429
    THEN Raise("RateLimitError", "SerpAPI rate limit exceeded")
    ELSE IF up.status = 401
    THEN Raise("AuthenticationError", "Invalid SerpAPI key")
    ELSE IF up.status >= 400
    THEN Raise("ToolExecutionError", "HTTP error: " \o ToString(up.status))
    ELSE IF up.error # ""
    THEN IF ContainsInvalidApiKey(up.error)
         THEN Raise("AuthenticationError", "Invalid SerpAPI key: " \o up.error)
         ELSE Raise("ToolExecutionError", "SerpAPI error: " \o up.error)
    ELSE LET n == Min(Len(up.organic), input.num_results)
             results == [i \in 1..n |->
                            [title |-> up.organic[i].title, url |-> up.organic[i].link,
                             snippet |-> up.organic[i].snippet, position |-> i]]
         IN  IF \E i \in 1..n : ~IsDict(up.organic[i])
             THEN \* item.get: no except clause of execute names AttributeError
                  Raise("AttributeError", "'str' object has no attribute 'get'")
             ELSE IF up.total.t = "str" /\ up.total.v \notin DOMAIN TotalOfString
             THEN Raise("ToolExecutionError",
                        "Failed to parse response: invalid literal for int()")
             ELSE Ok(SearchOutput(results,
                        IF up.total.t = "str" THEN TotalOfString[up.total.v] ELSE up.total.v))

\* A variant of WebFetchExecute that maps 429 and 401 as the search tool does.
WebFetchExecute_SearchMapping(input, up) ==
    IF up.status = 0
    THEN Raise("ToolExecutionError", "Failed to fetch " \o input.url \o ": connection refused")
    ELSE IF up.status = 429
    THEN Raise("RateLimitError", "rate limit exceeded fetching " \o input.url)
    ELSE IF up.status = 401
    THEN Raise("AuthenticationError", "not authorized to fetch " \o input.url)
    ELSE IF up.status >= 400
    THEN Raise("ToolExecutionError",
               "HTTP error fetching " \o input.url \o ": " \o ToString(up.status))
    ELSE IF up.broken
    THEN Raise("ToolExecutionError", "Error processing content: cannot decode")
    ELSE Ok([cls |-> "WebFetchOutput", url |-> up.url,
             content |-> IF input.mode = "html" THEN up.html ELSE up.text,
             mode |-> input.mode, title |-> up.title])

\* WebFetchTool.execute
WebFetchExecute(input, up) ==
    IF up.status = 0
    THEN Raise("ToolExecutionError", "Failed to fetch " \o input.url \o ": connection refused")
    ELSE IF up.status >= 400
    THEN Raise("ToolExecutionError",
               "HTTP error fetching " \o input.url \o ": " \o ToString(up.status))
    ELSE IF up.broken
    THEN Raise("ToolExecutionError", "Error processing content: cannot decode")
    ELSE Ok([cls |-> "WebFetchOutput", url |-> up.url,
             content |-> IF input.mode = "html" THEN up.html ELSE up.text,
             mode |-> input.mode, title |-> up.title])

\* tool.input_model(**kwargs)
input_model(tool, kw) ==
    IF tool = "web_fetch" THEN WebFetchInput(kw) ELSE GoogleSearchInput(kw)

\* tool.output_model
output_model(tool) ==
    IF tool = "web_fetch" THEN "WebFetchOutput" ELSE "GoogleSearchOutput"

\* tool.execute(validated_input): the extension point.  "stub" is a BaseTool
\* subclass with the search tool's models whose execute is its author's.
execute(tool, input, up) ==
    CASE tool = "google_search" -> GoogleSearchExecute(input, up)
      [] tool = "web_fetch" -> WebFetchExecute(input, up)
      [] OTHER -> up

\* BaseTool.validate_and_execute(**kwargs): what the caller gets, and how often
\* execute ran.
validate_and_execute(tool, kw, up) ==
    LET validated_input == input_model(tool, kw)
    IN  IF ~validated_input.ok
        THEN [result |-> validated_input, execute_calls |-> 0]
        ELSE [result |-> execute(tool, validated_input.value, up), execute_calls |-> 1]

\* Does a returned value have the fields and types of the tool's output model?
Conforms(tool, value) ==
    /\ value.cls = output_model(tool)
    /\ DOMAIN value = (IF tool = "web_fetch"
                       THEN {"cls", "url", "content", "mode", "title"}
                       ELSE {"cls", "results", "total_results"})

----------------------------------------------------------------------------
(* The export of a tool for function calling.  model_json_schema() builds  *)
(* the JSON Schema of an input model from its field declarations: a field  *)
(* without a default is required; ge and le become minimum and maximum.    *)

\* tool.name
tool_name(tool) == tool

\* tool.description
tool_description(tool) ==
    CASE tool = "google_search" ->
           "Search Google for information. Returns the top search results with "
           \o "titles, URLs, and snippets. Use this when you need to find current "
           \o "information, research topics, or look up facts online."
      [] tool = "web_fetch" ->
           "Fetch content from a URL. Returns either cleaned readable text or raw HTML. "
           \o "Use 'text' mode for reading and analysis, 'html' mode when you need the "
           \o "full page structure. Automatically handles redirects and common web formats."
      [] OTHER -> "A test double."

\* the schema of a field declared str
StrSchema(title, text) ==
    O(("type" :> S("string")) @@ ("title" :> S(title)) @@ ("description" :> S(text)))

\* A variant of IntSchema that leaves out the bounds.
IntSchema_NoBounds(title, text, default, ge, le) ==
    O(("type" :> S("integer")) @@ ("title" :> S(title)) @@ ("description" :> S(text))
      @@ ("default" :> I(default)))

\* the schema of a field declared int with default, ge and le
IntSchema(title, text, default, ge, le) ==
    O(("type" :> S("integer")) @@ ("title" :> S(title)) @@ ("description" :> S(text))
      @@ ("default" :> I(default)) @@ ("minimum" :> I(ge)) @@ ("maximum" :> I(le)))

\* the schema of a field declared Literal[...] with a default
EnumSchema(title, text, default, values) ==
    O(("type" :> S("string")) @@ ("title" :> S(title)) @@ ("description" :> S(text))
      @@ ("default" :> S(default)) @@ ("enum" :> L(values)))

\* the schema of a model: its fields, and the fields without a default
ObjectSchema(title, text, properties, required) ==
    O(("type" :> S("object")) @@ ("title" :> S(title)) @@ ("description" :> S(text))
      @@ ("properties" :> O(properties)) @@ ("required" :> L(required)))

\* GoogleSearchInput.model_json_schema()
GoogleSearchInputSchema ==
    ObjectSchema("GoogleSearchInput", "Input parameters for Google Search.",
        ("query" :> StrSchema("Query", "The search query to execute"))
        @@ ("num_results" :> IntSchema("Num Results", "Number of results to return (1-10)",
                                       NumResultsDefault, NumResultsMin, NumResultsMax)),
        <<S("query")>>)

\* WebFetchInput.model_json_schema()
WebFetchInputSchema ==
    ObjectSchema("WebFetchInput", "Input parameters for Web Fetch.",
        ("url" :> StrSchema("Url", "The URL to fetch"))
        @@ ("mode" :> EnumSchema("Mode",
                "Output mode: 'text' for cleaned readable text, 'html' for raw HTML",
                "text", <<S("text"), S("html")>>))
        @@ ("timeout" :> IntSchema("Timeout", "Request timeout in seconds (5-120)",
                                   TimeoutDefault, TimeoutMin, TimeoutMax)),
        <<S("url")>>)

\* tool.input_model.model_json_schema()
model_json_schema(tool) ==
    IF tool = "web_fetch" THEN WebFetchInputSchema ELSE GoogleSearchInputSchema

\* BaseTool.to_openai_schema()
to_openai_schema(tool) ==
    O(("type" :> S("function"))
      @@ ("function" :> O(("name" :> S(tool_name(tool)))
                          @@ ("description" :> S(tool_description(tool)))
                          @@ ("parameters" :> model_json_schema(tool)))))

\* BaseTool.to_anthropic_schema()
to_anthropic_schema(tool) ==
    O(("name" :> S(tool_name(tool)))
      @@ ("description" :> S(tool_description(tool)))
      @@ ("input_schema" :> model_json_schema(tool)))

\* no schema exported yet
NoSchemas == [openai |-> NoValue, anthropic |-> NoValue]

----------------------------------------------------------------------------
(* research_company: the conversation and the model endpoint.              *)

SYSTEM_PROMPT == "You are a company research analyst."

Msg(role, content, calls, call_id) ==
    [role |-> role, content |-> content, tool_calls |-> calls, tool_call_id |-> call_id]

\* a message without tool calls / that answers no tool call carries <<>> / 0
SystemMsg == Msg("system", SYSTEM_PROMPT, <<>>, 0)
UserMsg(company) ==
    Msg("user", "Research " \o company \o " and create a comprehensive company report.",
        <<>>, 0)

\* message.model_dump() of the model's response
AssistantMsg(response) == Msg("assistant", response.content, response.tool_calls, 0)

\* A variant of ToolMsg that takes the identifier of the turn's first request.
ToolMsg_FirstId(tool_call, content) == Msg("tool", content, <<>>, tool_calls[1].id)

\* {"role": "tool", "tool_call_id": tool_call.id, "content": content}
ToolMsg(tool_call, content) == Msg("tool", content, <<>>, tool_call.id)

\* The requests the model endpoint may put into a response.
Shape(name, arguments) == [name |-> name, arguments |-> arguments]

PlainShape == Shape("google_search", ARGS_SEARCH)

CallShapes ==
    {PlainShape,
     Shape("google_search", ARGS_SEARCH_ZERO),
     Shape("google_search", ARGS_LIST),
     Shape("google_search", ARGS_NOT_JSON),
     Shape("web_fetch", ARGS_FETCH),
     Shape("calculator", ARGS_EMPTY),
     Shape("calculator", ARGS_NOT_JSON)}

\* The upstream answers a tool may get inside the loop.
LoopUpstreams(tool) ==
    IF tool = "web_fetch" THEN {FETCH_OK, FETCH_404}
    ELSE {SEARCH_OK, SEARCH_429, SEARCH_401, SEARCH_500}

PlainUpstream(tool) == IF tool = "web_fetch" THEN FETCH_OK ELSE SEARCH_OK

ShapesCost(shapes) ==
    (Len(shapes) - 1) + Cardinality({i \in 1..Len(shapes) : shapes[i] # PlainShape})

UpstreamCost(tool, up) == IF up = PlainUpstream(tool) THEN 0 ELSE 1

\* The identifier the endpoint gives the k-th request of a turn: unique within
\* a conversation.
CallId(turn, k) == 100 * turn + k

FinalResponse == [content |-> "REPORT: Acme makes anvils", tool_calls |-> <<>>]

ToolCallResponse(turn, shapes) ==
    [content |-> "",
     tool_calls |-> [k \in 1..Len(shapes) |->
                        [id |-> CallId(turn, k), name |-> shapes[k].name,
                         arguments |-> shapes[k].arguments]]]

\* What the endpoint may answer on a turn, given the departures left.
Responses(turn, left) ==
    {FinalResponse} \cup
    {ToolCallResponse(turn, shapes) :
        shapes \in {sh \in UNION {[1..n -> CallShapes] : n \in 1..(left + 1)} :
                        ShapesCost(sh) <= left}}

CostOfResponse(response) ==
    IF response.tool_calls = <<>> THEN 0
    ELSE ShapesCost([k \in 1..Len(response.tool_calls) |->
                        Shape(response.tool_calls[k].name, response.tool_calls[k].arguments)])

NoReturn == [kind |-> "none", value |-> "", exc |-> NoExc]
Returned(value) == [kind |-> "return", value |-> value, exc |-> NoExc]
Raised(exc) == [kind |-> "raise", value |-> "", exc |-> exc]

----------------------------------------------------------------------------
(* research_company: the loop.                                             *)

InitAgent ==
    /\ messages = <<SystemMsg, UserMsg(company_name)>>
    /\ turn_count = 0
    /\ pc = "loop"
    /\ tool_calls = <<>>
    /\ idx = 0
    /\ ret = NoReturn
    /\ model_calls = 0
    /\ vae_log = <<>>
    /\ varied = 0

InitContractIdle ==
    /\ c_pc = "idle"
    /\ c_tool = ""
    /\ c_kwargs = EmptyObject
    /\ c_result = Ok(NoValue)
    /\ c_execute_calls = 0
    /\ c_execute_outcome = Ok(NoValue)
    /\ c_up = NoValue
    /\ c_schemas = NoSchemas

Init == InitAgent /\ InitContractIdle

\* A variant of CurrentCall that walks message.tool_calls backwards.
CurrentCall_Reversed == tool_calls[Len(tool_calls) + 1 - idx]

\* the request the for loop is at
CurrentCall == tool_calls[idx]

\* A variant of NextPosition that leaves the for loop before its last request.
NextPosition_SkipLast == IF idx + 1 < Len(tool_calls) THEN "for" ELSE "loop"

\* A variant of NextPosition that leaves the for loop after one request.
NextPosition_Abort == "loop"

\* where the loop goes when the body of the for loop ends: the next request,
\* or the head of the while loop
NextPosition == IF idx < Len(tool_calls) THEN "for" ELSE "loop"

\* A variant of WhileCondition that admits one more pass.
WhileCondition_OffByOne == turn_count <= max_turns

\* Is the while condition true?
WhileCondition == turn_count < max_turns

\* A variant of ReturnsOn that tests message.content instead of message.tool_calls.
ReturnsOn_ContentCheck(response) == response.content = ""

\* What research_company does with a response without tool calls (129-132):
\* TRUE when it returns message.content.
ReturnsOn(response) == response.tool_calls = <<>>

\* agent.py 116-135: one pass of the while loop up to the for loop: the
\* round-trip to the model endpoint, and the return when no tool was called
CallModel ==
    /\ pc = "loop"
    /\ WhileCondition
    /\ \E response \in Responses(turn_count + 1, MaxVaried - varied) :
        /\ turn_count' = turn_count + 1
        /\ model_calls' = model_calls + 1
        /\ messages' = Append(messages, AssistantMsg(response))
        /\ varied' = varied + CostOfResponse(response)
        /\ tool_calls' = response.tool_calls
        /\ IF ReturnsOn(response)
           THEN /\ pc' = "done"
                /\ ret' = Returned(response.content)
                /\ idx' = idx
           ELSE /\ pc' = IF response.tool_calls = <<>> THEN "loop" ELSE "for"
                /\ ret' = ret
                /\ idx' = 1
    /\ UNCHANGED <<vae_log, contract_vars>>

\* agent.py 205-207: the while condition is false
ReturnSentinel ==
    /\ pc = "loop"
    /\ ~WhileCondition
    /\ pc' = "done"
    /\ ret' = Returned(MAX_TURNS_MESSAGE)
    /\ UNCHANGED <<messages, turn_count, tool_calls, idx, model_calls, vae_log, varied,
                   contract_vars>>

\* The content of the tool message for a finished validate_and_execute
\* (146-162, 176-187 on success; the except clause 197-203 otherwise)
ResultContent(name, result) ==
    IF ~result.ok THEN json_dumps_error(result.exc.msg)
    ELSE IF name = "web_fetch" THEN json_dumps_fetch(result.value)
    ELSE json_dumps_search(result.value)

LogEntry(tool_call, outcome) ==
    [id |-> tool_call.id, name |-> tool_call.name, result |-> outcome.result,
     execute_calls |-> outcome.execute_calls]

\* A variant of Appended that writes the tool message over the last message.
Appended_Overwrite(tool_call, content) ==
    [messages EXCEPT ![Len(messages)] = ToolMsg(tool_call, content)]

\* A variant of Appended that appends the tool message twice.
Appended_Twice(tool_call, content) ==
    Append(Append(messages, ToolMsg(tool_call, content)), ToolMsg(tool_call, content))

\* the message a finished request leaves in the conversation
Appended(tool_call, content) == Append(messages, ToolMsg(tool_call, content))

\* agent.py 135-142/171 and 189-203: the body of the for loop up to the point
\* where the tool's execute goes to the network
BeginToolCall ==
    /\ pc = "for"
    /\ LET tool_call == CurrentCall
           parsed == json_loads(tool_call.arguments)
           args == parsed.value
       IN  IF ~parsed.ok
           THEN \* line 137 is outside the try block: the exception leaves research_company
                /\ pc' = "raised"
                /\ ret' = Raised(parsed.exc)
                /\ UNCHANGED <<messages, idx, vae_log>>
           ELSE IF tool_call.name \notin ToolNames
           THEN /\ messages' = Appended(tool_call,
                                   json_dumps_error("Unknown tool: " \o tool_call.name))
                /\ pc' = NextPosition
                /\ idx' = idx + 1
                /\ UNCHANGED <<ret, vae_log>>
           ELSE IF args.t # "obj"
           THEN \* args.get raises AttributeError inside the try block
                /\ messages' = Appended(tool_call,
                                   json_dumps_error("'list' object has no attribute 'get'"))
                /\ pc' = NextPosition
                /\ idx' = idx + 1
                /\ UNCHANGED <<ret, vae_log>>
           ELSE IF ~input_model(tool_call.name, args.v).ok
           THEN LET outcome == validate_and_execute(tool_call.name, args.v,
                                                    PlainUpstream(tool_call.name))
                IN  /\ messages' = Appended(tool_call,
                                       ResultContent(tool_call.name, outcome.result))
                    /\ vae_log' = Append(vae_log, LogEntry(tool_call, outcome))
                    /\ pc' = NextPosition
                    /\ idx' = idx + 1
                    /\ ret' = ret
           ELSE /\ pc' = "executing"
                /\ UNCHANGED <<messages, idx, ret, vae_log>>
    /\ UNCHANGED <<turn_count, tool_calls, model_calls, varied, contract_vars>>

\* agent.py 142-163 / 171-187 / 197-203: execute comes back from the network,
\* validate_and_execute returns or raises, and the result is appended
EndToolCall ==
    /\ pc = "executing"
    /\ LET tool_call == CurrentCall
           args == json_loads(tool_call.arguments).value
       IN  \E up \in LoopUpstreams(tool_call.name) :
            /\ varied + UpstreamCost(tool_call.name, up) <= MaxVaried
            /\ varied' = varied + UpstreamCost(tool_call.name, up)
            /\ LET outcome == validate_and_execute(tool_call.name, args.v, up)
               IN  /\ messages' = Appended(tool_call,
                                      ResultContent(tool_call.name, outcome.result))
                   /\ vae_log' = Append(vae_log, LogEntry(tool_call, outcome))
    /\ pc' = NextPosition
    /\ idx' = idx + 1
    /\ UNCHANGED <<turn_count, tool_calls, ret, model_calls, contract_vars>>

Next == CallModel \/ ReturnSentinel \/ BeginToolCall \/ EndToolCall

Spec == Init /\ [][Next]_vars

----------------------------------------------------------------------------
(* One call of validate_and_execute.                                       *)

Key(name, value) == name :> value

ContractKwargs ==
    {EmptyObject,
     Key("query", S("acme")),
     Key("query", S("acme")) @@ Key("num_results", I(0)),
     Key("query", S("acme")) @@ Key("num_results", I(1)),
     Key("query", S("acme")) @@ Key("num_results", I(10)),
     Key("query", S("acme")) @@ Key("num_results", I(11)),
     Key("query", S("acme")) @@ Key("num_results", S("3")),
     Key("query", S("acme")) @@ Key("num_results", S("many")),
     Key("query", I(7)),
     Key("num_results", I(3)),
     Key("url", S("https://acme.test")),
     Key("url", S("https://acme.test")) @@ Key("mode", S("html")),
     Key("url", S("https://acme.test")) @@ Key("mode", S("pdf")),
     Key("url", S("https://acme.test")) @@ Key("timeout", I(4)),
     Key("url", S("https://acme.test")) @@ Key("timeout", I(5)),
     Key("url", S("https://acme.test")) @@ Key("timeout", I(120)),
     Key("url", S("https://acme.test")) @@ Key("timeout", I(121))}

ContractTools == ToolNames \cup {"stub"}

Upstreams(tool) ==
    CASE tool = "google_search" -> SearchUpstreams
      [] tool = "web_fetch" -> FetchUpstreams
      [] OTHER -> StubUpstreams

InitContract ==
    /\ InitAgent
    /\ c_pc = "start"
    /\ c_tool \in ContractTools
    /\ c_kwargs \in ContractKwargs
    /\ c_result = Ok(NoValue)
    /\ c_execute_calls = 0
    /\ c_execute_outcome = Ok(NoValue)
    /\ c_up = NoValue
    /\ c_schemas = NoSchemas

\* base.py 61: the input model is built; a failure leaves validate_and_execute
ContractValidate ==
    /\ c_pc = "start"
    /\ IF input_model(c_tool, c_kwargs).ok
       THEN /\ c_pc' = "executing"
            /\ UNCHANGED <<c_result, c_execute_calls>>
       ELSE LET outcome == validate_and_execute(c_tool, c_kwargs, NoValue)
            IN  /\ c_pc' = "raised"
                /\ c_result' = outcome.result
                /\ c_execute_calls' = c_execute_calls + outcome.execute_calls
    /\ UNCHANGED <<agent_vars, c_tool, c_kwargs, c_execute_outcome, c_up, c_schemas>>

\* base.py 62-63: execute runs and its outcome is handed to the caller
ContractExecute ==
    /\ c_pc = "executing"
    /\ \E up \in Upstreams(c_tool) :
        LET outcome == validate_and_execute(c_tool, c_kwargs, up)
        IN  /\ c_result' = outcome.result
            /\ c_execute_calls' = c_execute_calls + outcome.execute_calls
            /\ c_pc' = IF outcome.result.ok THEN "returned" ELSE "raised"
            /\ c_execute_outcome' = execute(c_tool, input_model(c_tool, c_kwargs).value, up)
            /\ c_up' = up
    /\ UNCHANGED <<agent_vars, c_tool, c_kwargs, c_schemas>>

\* base.py 65-79: the tool is exported in the OpenAI shape; the tool is left as
\* it is, and the export can be asked for at any time and again
ContractExportOpenAI ==
    /\ c_pc # "idle"
    /\ c_schemas' = [c_schemas EXCEPT !.openai = to_openai_schema(c_tool)]
    /\ UNCHANGED <<agent_vars, c_pc, c_tool, c_kwargs, c_result, c_execute_calls,
                   c_execute_outcome, c_up>>

\* base.py 81-92: the same in the Anthropic shape
ContractExportAnthropic ==
    /\ c_pc # "idle"
    /\ c_schemas' = [c_schemas EXCEPT !.anthropic = to_anthropic_schema(c_tool)]
    /\ UNCHANGED <<agent_vars, c_pc, c_tool, c_kwargs, c_result, c_execute_calls,
                   c_execute_outcome, c_up>>

NextContract ==
    ContractValidate \/ ContractExecute \/ ContractExportOpenAI \/ ContractExportAnthropic

SpecContract == InitContract /\ [][NextContract]_vars

----------------------------------------------------------------------------
(* Properties of research_company (checked under Spec).                    *)

Positions == 1..Len(messages)

AssistantPositions == {p \in Positions : messages[p].role = "assistant"}

ToolPositions == {p \in Positions : messages[p].role = "tool"}

\* the position of the last assistant message before position p, 0 if none
RECURSIVE LastAssistantBefore(_)
LastAssistantBefore(p) ==
    IF p <= 1 THEN 0
    ELSE IF messages[p - 1].role = "assistant" THEN p - 1
    ELSE LastAssistantBefore(p - 1)

\* From position p on, with the last assistant message at q (0 if none): every
\* tool-result at q + j carries the identifier of the j-th request of messages[q].
RECURSIVE ResultsFollowRequests(_, _)
ResultsFollowRequests(p, q) ==
    IF p > Len(messages) THEN TRUE
    ELSE IF messages[p].role = "assistant" THEN ResultsFollowRequests(p + 1, p)
    ELSE IF messages[p].role # "tool" THEN ResultsFollowRequests(p + 1, q)
    ELSE /\ q > 0
         /\ p - q <= Len(messages[q].tool_calls)
         /\ messages[p].tool_call_id = messages[q].tool_calls[p - q].id
         /\ ResultsFollowRequests(p + 1, q)

\* The tool invocations vae_log[i..] have their results, in the order of the
\* invocations, among messages[p..].
RECURSIVE InvocationsInResultOrder(_, _)
InvocationsInResultOrder(i, p) ==
    IF i > Len(vae_log) THEN TRUE
    ELSE IF p > Len(messages) THEN FALSE
    ELSE IF messages[p].role = "tool" /\ messages[p].tool_call_id = vae_log[i].id
    THEN InvocationsInResultOrder(i + 1, p + 1)
    ELSE InvocationsInResultOrder(i, p + 1)

Ended == pc \in {"done", "raised"}

EveryResponseCallsATool == \A p \in AssistantPositions : messages[p].tool_calls # <<>>

\* C1 (turn limit): against an endpoint whose every response requests a tool
\* call, research_company makes exactly max_turns round-trips, never one more,
\* and then returns the max-turns sentinel as a normal return value.
C1_TurnLimit ==
    /\ model_calls <= max_turns
    /\ (Ended /\ EveryResponseCallsATool) =>
          /\ pc = "done"
          /\ ret = Returned(MAX_TURNS_MESSAGE)
          /\ model_calls = max_turns

\* C2 (finish condition): the first response without tool-call requests ends
\* the loop: it is the last message of the conversation, its content is the
\* return value, it came after exactly as many round-trips as there are turns,
\* and every tool invocation made precedes it.
C2_FinishCondition ==
    \A p \in AssistantPositions :
        messages[p].tool_calls = <<>> =>
            /\ p = Len(messages)
            /\ pc = "done"
            /\ ret = Returned(messages[p].content)
            /\ model_calls = Cardinality(AssistantPositions)
            /\ model_calls = turn_count
            /\ turn_count \in 1..max_turns
            /\ \A i \in 1..Len(vae_log) :
                  \E t \in ToolPositions : t < p /\ messages[t].tool_call_id = vae_log[i].id

C2_Witness ==
    /\ pc = "done"
    /\ ret = Returned(FinalResponse.content)
    /\ model_calls = 3
    /\ Len(vae_log) = 2

\* C3 (return-value totality): whatever names and argument strings the
\* tool-call requests carry, research_company never ends by raising: it returns
\* the model's final text or the max-turns sentinel.
C3_ReturnValueTotality ==
    /\ pc # "raised"
    /\ pc = "done" =>
          /\ ret.kind = "return"
          /\ \/ ret.value = MAX_TURNS_MESSAGE
             \/ ret.value = messages[Len(messages)].content

\* C4 (per-call isolation): when validate_and_execute fails for a request, the
\* loop appends the tool-result {error: <message>} with that request's
\* identifier and goes on: to the next request of the turn if there is one,
\* otherwise to the head of the while loop; it neither returns nor raises.
C4_PerCallIsolation ==
    [][(Len(vae_log') = Len(vae_log) + 1 /\ ~vae_log'[Len(vae_log')].result.ok) =>
          LET failed == vae_log'[Len(vae_log')]
              request == tool_calls[idx]
          IN  /\ failed.id = request.id
              /\ messages' = Append(messages,
                     Msg("tool", json_dumps_error(failed.result.exc.msg), <<>>, request.id))
              /\ tool_calls' = tool_calls
              /\ idx' = idx + 1
              /\ pc' = IF idx < Len(tool_calls) THEN "for" ELSE "loop"
              /\ turn_count' = turn_count
              /\ ret' = NoReturn]_vars

\* first request rate-limited, second request answered, and the next turn begun
C4_Witness ==
    \E q \in AssistantPositions :
        /\ Len(messages[q].tool_calls) = 2
        /\ q + 3 <= Len(messages)
        /\ messages[q + 1] = Msg("tool", json_dumps_error("SerpAPI rate limit exceeded"),
                                 <<>>, messages[q].tool_calls[1].id)
        /\ messages[q + 2] = Msg("tool",
                                 json_dumps_search(GoogleSearchExecute(
                                     GoogleSearchInput(Key("query", S("acme"))).value,
                                     SEARCH_OK).value),
                                 <<>>, messages[q].tool_calls[2].id)
        /\ messages[q + 3].role = "assistant"
        /\ \E i \in 1..Len(vae_log) : vae_log[i].result.exc.kind = "RateLimitError"

\* Has the loop begun to process request k of the assistant message at q?
Processed(q, k) ==
    \/ q < LastAssistantBefore(Len(messages) + 1)
    \/ pc \in {"loop", "done"}
    \/ idx > k
    \/ idx = k /\ pc = "raised"

\* C5 (unknown tool): every processed request whose name is no registered tool
\* has the tool-result {"error": "Unknown tool: <name>"} with its identifier in
\* the conversation, and no validate_and_execute / execute ran for it.
C5_UnknownTool ==
    \A q \in AssistantPositions : \A k \in 1..Len(messages[q].tool_calls) :
        LET request == messages[q].tool_calls[k]
        IN  (request.name \notin ToolNames /\ Processed(q, k)) =>
                /\ \E p \in ToolPositions :
                      /\ p > q
                      /\ messages[p] = Msg("tool",
                             json_dumps_error("Unknown tool: " \o request.name),
                             <<>>, request.id)
                /\ \A i \in 1..Len(vae_log) : vae_log[i].id # request.id

\* C6 (call-identifier correlation): every tool-result message carries the
\* identifier of a request of an assistant message appended before it, and the
\* step that appends it takes the identifier of the request being processed.
C6_CallIdCorrelation ==
    /\ [](\A p \in ToolPositions :
             \E q \in AssistantPositions :
                /\ q < p
                /\ \E k \in 1..Len(messages[q].tool_calls) :
                      messages[q].tool_calls[k].id = messages[p].tool_call_id)
    /\ [][(Len(messages') = Len(messages) + 1 /\ messages'[Len(messages')].role = "tool") =>
             /\ messages'[Len(messages')].tool_call_id = tool_calls[idx].id
             /\ \E q \in AssistantPositions : messages[q].tool_calls = tool_calls]_vars

\* results of the unknown-tool path, the error path and the success path
C6_Witness ==
    /\ \E p \in ToolPositions :
          messages[p].content = json_dumps_error("Unknown tool: calculator")
    /\ \E i \in 1..Len(vae_log) : ~vae_log[i].result.ok
    /\ \E i \in 1..Len(vae_log) : vae_log[i].result.ok
    /\ Cardinality(ToolPositions) >= 3

\* C7 (ordering within a turn): the tool-results of a response directly follow
\* its assistant message, the j-th of them answering the j-th request; while
\* request j is being processed exactly the results of requests 1..j-1 of the
\* turn are in the conversation; tools run in the order of their results.
C7_OrderingWithinTurn ==
    /\ ResultsFollowRequests(1, 0)
    /\ pc \in {"for", "executing"} =>
          LET q == LastAssistantBefore(Len(messages) + 1)
          IN  /\ messages[q].tool_calls = tool_calls
              /\ idx \in 1..Len(tool_calls)
              /\ Len(messages) = q + idx - 1
    /\ InvocationsInResultOrder(1, 1)

\* the second request of a turn is in flight and the first has its result
C7_Witness ==
    /\ pc = "executing"
    /\ idx = 2
    /\ messages[Len(messages)].role = "tool"
    /\ messages[Len(messages)].tool_call_id = tool_calls[1].id

----------------------------------------------------------------------------
(* Properties of validate_and_execute (checked under SpecContract).        *)

ContractEnded == c_pc \in {"returned", "raised"}

\* C8 (validation gate): raw arguments that violate the input schema make
\* validate_and_execute fail with the library's ValidationError, and execute
\* is not invoked.
C8_ValidationGate ==
    (ContractEnded /\ ~input_model(c_tool, c_kwargs).ok) =>
        /\ c_pc = "raised"
        /\ c_result.exc.kind = "ValidationError"
        /\ c_execute_calls = 0

\* C9 (error propagation): an error raised by execute leaves
\* validate_and_execute unchanged, and every error that leaves
\* validate_and_execute is of one of the four ToolError kinds.
C9_ErrorPropagation ==
    c_pc = "raised" =>
        /\ c_result.exc.kind \in ToolErrorKinds
        /\ c_execute_calls = 1 => c_result = c_execute_outcome

\* C10 (output conformance): whatever validate_and_execute returns conforms to
\* the tool's declared output model.
C10_OutputConformance ==
    c_pc = "returned" => Conforms(c_tool, c_result.value)

\* Is messages[p] a tool-result that carries an error?
IsErrorResult(p) ==
    /\ messages[p].role = "tool"
    /\ \E i \in 1..Len(vae_log) :
          /\ vae_log[i].id = messages[p].tool_call_id
          /\ ~vae_log[i].result.ok
          /\ messages[p].content = json_dumps_error(vae_log[i].result.exc.msg)

\* C11 (append-only conversation): the conversation starts as the system
\* message followed by the user task message, and every step leaves it alone or
\* appends to it: the conversation before a step is a prefix of the conversation
\* after it, so no message, an error tool-result included, is ever changed or
\* removed.
C11_AppendOnly ==
    /\ [](/\ Len(messages) >= 2
          /\ messages[1] = SystemMsg
          /\ messages[2] = UserMsg(company_name))
    /\ [][/\ Len(messages') >= Len(messages)
          /\ SubSeq(messages', 1, Len(messages)) = messages]_vars

\* an error tool-result with two later messages behind it
C11_Witness ==
    \E p \in Positions : IsErrorResult(p) /\ p + 2 <= Len(messages)

\* C12 (turn counter): turn_count is between 0 and max_turns, it is the number
\* of round-trips made to the model endpoint, and it is the number of assistant
\* messages in the conversation: it is 0 at the start and goes up by one with
\* each round-trip and with nothing else.
C12_TurnCounter ==
    /\ turn_count \in 0..max_turns
    /\ model_calls = turn_count
    /\ Cardinality(AssistantPositions) = turn_count
    /\ Len(messages) = 2 => turn_count = 0

\* the counter at its ceiling with the last turn's request still in the for loop
C12_Witness == turn_count = max_turns /\ pc = "for"

\* From position p on, with the last assistant message at q: an assistant
\* message comes only when every request of messages[q] has its tool-result,
\* with its identifier, between q and p.
RECURSIVE NoRequestLeftOpen(_, _)
NoRequestLeftOpen(p, q) ==
    IF p > Len(messages) THEN TRUE
    ELSE IF messages[p].role = "assistant"
    THEN /\ q > 0 =>
              /\ p = q + Len(messages[q].tool_calls) + 1
              /\ \A j \in 1..Len(messages[q].tool_calls) :
                    /\ messages[q + j].role = "tool"
                    /\ messages[q + j].tool_call_id = messages[q].tool_calls[j].id
         /\ NoRequestLeftOpen(p + 1, p)
    ELSE NoRequestLeftOpen(p + 1, q)

\* the same for the end of the conversation
AllRequestsAnswered ==
    LET q == LastAssistantBefore(Len(messages) + 1)
    IN  q > 0 =>
          /\ Len(messages) = q + Len(messages[q].tool_calls)
          /\ \A j \in 1..Len(messages[q].tool_calls) :
                /\ messages[q + j].role = "tool"
                /\ messages[q + j].tool_call_id = messages[q].tool_calls[j].id

\* C13 (no speculative next turn): the model endpoint is called for the next
\* turn only when every tool-call request of the turn before has its
\* tool-result, with its identifier, in the conversation: every assistant
\* message comes after the results of all earlier requests, and at the head of
\* the while loop no request is without its result.
C13_NoSpeculativeTurn ==
    /\ NoRequestLeftOpen(1, 0)
    /\ pc = "loop" => AllRequestsAnswered

\* a round-trip made after a turn of two requests, both answered
C13_Witness ==
    \E q \in AssistantPositions :
        /\ Len(messages[q].tool_calls) = 2
        /\ q + 3 <= Len(messages)
        /\ messages[q + 1].role = "tool"
        /\ messages[q + 2].role = "tool"
        /\ messages[q + 3].role = "assistant"
        /\ messages[q + 3].tool_calls # <<>>

\* C16 (bounded termination): research_company makes at most max_turns
\* round-trips and stops only by returning: a run that is not at a return can
\* take a step; and it returns the max-turns sentinel exactly when it made
\* max_turns round-trips and every response requested a tool call, the model's
\* final text otherwise.
C16_BoundedTermination ==
    /\ model_calls <= max_turns
    /\ pc # "done" => ENABLED Next
    /\ pc = "done" =>
          /\ ret.kind = "return"
          /\ ret.value = MAX_TURNS_MESSAGE <=>
                (model_calls = max_turns /\ EveryResponseCallsATool)

\* the number of tool-results directly behind position q, counted up to limit
RECURSIVE ResultsBehind(_, _)
ResultsBehind(q, limit) ==
    IF limit = 0 \/ q + 1 > Len(messages) \/ messages[q + 1].role # "tool" THEN 0
    ELSE 1 + ResultsBehind(q + 1, limit - 1)

\* Has the for loop finished with the requests of the assistant message at q?
TurnCompleted(q) ==
    \/ q < LastAssistantBefore(Len(messages) + 1)
    \/ pc \in {"loop", "done"}

\* C17 (exactly one result per request): behind an assistant message with k
\* requests there are never more than k tool-results, the j-th of them carries
\* the identifier of the j-th request, and once the for loop has finished with
\* the message there are exactly k, before the next assistant message or the
\* return.
C17_OneResultPerRequest ==
    \A q \in AssistantPositions :
        LET requests == messages[q].tool_calls
            k == Len(requests)
            r == ResultsBehind(q, k + 1)
        IN  /\ r <= k
            /\ \A j \in 1..r : messages[q + j].tool_call_id = requests[j].id
            /\ TurnCompleted(q) =>
                  /\ r = k
                  /\ q + k < Len(messages) => messages[q + k + 1].role = "assistant"

\* a finished turn of two requests, one answered by the tool and one for an
\* unknown tool, followed by the return of the final text
C17_Witness ==
    \E q \in AssistantPositions :
        /\ Len(messages[q].tool_calls) = 2
        /\ Len(messages) = q + 3
        /\ messages[q + 1].content # json_dumps_error("Unknown tool: calculator")
        /\ messages[q + 2].content = json_dumps_error("Unknown tool: calculator")
        /\ messages[q + 3].role = "assistant"
        /\ pc = "done"

\* Do the tool-results of the last assistant message end the conversation?
EndsWithLastTurnResults ==
    LET q == LastAssistantBefore(Len(messages) + 1)
        k == Len(messages[q].tool_calls)
    IN  /\ q > 0
        /\ k > 0
        /\ Len(messages) = q + k
        /\ \A j \in 1..k :
              /\ messages[q + j].role = "tool"
              /\ messages[q + j].tool_call_id = messages[q].tool_calls[j].id

\* C18 (last-turn dispatch): when the response of round-trip max_turns requests
\* tool calls, research_company processes every one of them, appends their
\* results and then returns the sentinel; and whenever it returns the sentinel
\* the conversation ends with the results of the last turn and each of the
\* max_turns turns had requests, all of them answered.
C18_LastTurnDispatch ==
    /\ (Ended /\ turn_count = max_turns /\ tool_calls # <<>>) =>
          /\ ret = Returned(MAX_TURNS_MESSAGE)
          /\ EndsWithLastTurnResults
    /\ ret = Returned(MAX_TURNS_MESSAGE) =>
          /\ EndsWithLastTurnResults
          /\ Cardinality(AssistantPositions) = max_turns
          /\ EveryResponseCallsATool
          /\ NoRequestLeftOpen(1, 0)

\* Does a JSON Schema declare the search input: query a required string,
\* num_results an optional integer from 1 to 10 with default 5?
DeclaresSearchInput(schema) ==
    /\ schema.t = "obj"
    /\ {"type", "properties", "required"} \subseteq DOMAIN schema.v
    /\ schema.v["type"] = S("object")
    /\ LET properties == schema.v["properties"].v
           required == schema.v["required"].v
       IN  /\ DOMAIN properties = {"query", "num_results"}
           /\ \E i \in 1..Len(required) : required[i] = S("query")
           /\ \A i \in 1..Len(required) : required[i] # S("num_results")
           /\ "type" \in DOMAIN properties["query"].v
           /\ properties["query"].v["type"] = S("string")
           /\ "default" \notin DOMAIN properties["query"].v
           /\ LET num_results == properties["num_results"].v
              IN  /\ {"type", "default", "minimum", "maximum"} \subseteq DOMAIN num_results
                  /\ num_results["type"] = S("integer")
                  /\ num_results["default"] = I(5)
                  /\ num_results["minimum"] = I(1)
                  /\ num_results["maximum"] = I(10)

\* C14 (schema export): an exported OpenAI schema is {type: "function",
\* function: {name, description, parameters}} and an exported Anthropic schema
\* is {name, description, input_schema}, both with the tool's own name and
\* description; for a tool whose input model is the search input both mark
\* query required and num_results optional with bounds 1 and 10 and default 5;
\* and parameters and input_schema are the same JSON Schema.
C14_SchemaExport ==
    LET openai == c_schemas.openai
        anthropic == c_schemas.anthropic
    IN  /\ openai # NoValue =>
              /\ DOMAIN openai.v = {"type", "function"}
              /\ openai.v["type"] = S("function")
              /\ DOMAIN openai.v["function"].v = {"name", "description", "parameters"}
              /\ openai.v["function"].v["name"] = S(c_tool)
              /\ openai.v["function"].v["description"] = S(tool_description(c_tool))
              /\ c_tool # "web_fetch" =>
                    DeclaresSearchInput(openai.v["function"].v["parameters"])
        /\ anthropic # NoValue =>
              /\ DOMAIN anthropic.v = {"name", "description", "input_schema"}
              /\ anthropic.v["name"] = S(c_tool)
              /\ anthropic.v["description"] = S(tool_description(c_tool))
              /\ c_tool # "web_fetch" => DeclaresSearchInput(anthropic.v["input_schema"])
        /\ (openai # NoValue /\ anthropic # NoValue) =>
              openai.v["function"].v["parameters"] = anthropic.v["input_schema"]

\* the search tool exported in both shapes
C14_Witness ==
    /\ c_tool = "google_search"
    /\ c_schemas.openai # NoValue
    /\ c_schemas.anthropic # NoValue
    /\ DeclaresSearchInput(c_schemas.anthropic.v["input_schema"])

\* C19 (search error mapping): the search tool's execute raises RateLimitError
\* for HTTP 429, AuthenticationError for HTTP 401, ToolExecutionError for any
\* other HTTP error and for a transport failure, AuthenticationError for a body
\* whose "error" contains "Invalid API key" and ToolExecutionError for any other
\* "error"; and whatever the body holds, an exception that leaves execute
\* belongs to the ToolExecutionError family.
C19_SearchErrorMapping ==
    (c_tool = "google_search" /\ c_execute_calls = 1) =>
        LET raised == IF c_execute_outcome.ok THEN "" ELSE c_execute_outcome.exc.kind
        IN  /\ c_up.status = 429 => raised = "RateLimitError"
            /\ c_up.status = 401 => raised = "AuthenticationError"
            /\ (c_up.status = 0 \/ (c_up.status >= 400 /\ c_up.status \notin {401, 429})) =>
                  raised = "ToolExecutionError"
            /\ (c_up.status = 200 /\ c_up.error = SEARCH_BAD_KEY.error) =>
                  raised = "AuthenticationError"
            /\ (c_up.status = 200 /\ c_up.error \notin {"", SEARCH_BAD_KEY.error}) =>
                  raised = "ToolExecutionError"
            /\ raised # "" => raised \in ToolErrorKinds

\* C20 (search result shape): when the search tool's execute returns for a
\* validated input with num_results = n in 1..10 and an upstream body with m
\* organic results, it returns the first min(m, n) of them in upstream order,
\* numbered 1..min(m, n), and an integer total_results.
C20_SearchResultShape ==
    (c_tool = "google_search" /\ c_execute_calls = 1 /\ c_execute_outcome.ok) =>
        LET output == c_execute_outcome.value
            m == Len(c_up.organic)
            n == input_model(c_tool, c_kwargs).value.num_results
            expected == IF m < n THEN m ELSE n
        IN  /\ n \in 1..10
            /\ Len(output.results) = expected
            /\ \A i \in 1..expected :
                  /\ output.results[i].position = i
                  /\ output.results[i].title = c_up.organic[i].title
                  /\ output.results[i].url = c_up.organic[i].link
                  /\ output.results[i].snippet = c_up.organic[i].snippet
            /\ output.total_results \in Int

\* two organic results upstream, one asked for, one returned
C20_Witness ==
    /\ c_tool = "google_search"
    /\ c_pc = "returned"
    /\ Len(c_up.organic) = 2
    /\ Len(c_result.value.results) = 1
    /\ c_result.value.total_results = 1200

\* C21 (fetch failure closure): whatever fails inside the fetch tool's execute,
\* an HTTP error status (401 and 429 included), a transport failure or an
\* exception while the content is processed, execute raises ToolExecutionError
\* and no other exception; and when it returns, the mode of the output is the
\* mode of the input, text or html, and the content is the one of that mode.
C21_FetchFailureClosure ==
    (c_tool = "web_fetch" /\ c_execute_calls = 1) =>
        LET input == input_model(c_tool, c_kwargs).value
            failed == c_up.status = 0 \/ c_up.status >= 400 \/ c_up.broken
        IN  /\ failed <=> ~c_execute_outcome.ok
            /\ ~c_execute_outcome.ok => c_execute_outcome.exc.kind = "ToolExecutionError"
            /\ c_execute_outcome.ok =>
                  /\ input.mode \in {"text", "html"}
                  /\ c_execute_outcome.value.mode = input.mode
                  /\ c_execute_outcome.value.content =
                        IF input.mode = "html" THEN c_up.html ELSE c_up.text
            /\ c_result = c_execute_outcome

\* a fetch answered 429 that left execute as ToolExecutionError
C21_Witness ==
    /\ c_tool = "web_fetch"
    /\ c_pc = "raised"
    /\ c_execute_calls = 1
    /\ c_up = FETCH_429
    /\ c_result.exc.kind = "ToolExecutionError"

====
